---- MODULE Spec2Model ----
(***************************************************************************)
(* asynapplicationinsights: the telemetry channel (channel/abstractions.py, *)
(* channel/aiohttpchannel.py), the client's push / flush / dispose          *)
(* (telemetry.py) and the aiohttp request middleware (aiohttp.py), as a     *)
(* state machine of cooperative tasks.                                      *)
(*                                                                          *)
(* asyncio runs one task at a time and switches tasks only at an await that *)
(* really suspends.  The queue is an unbounded asyncio.Queue, so            *)
(* `await self._queue.put(item)` never suspends; the only suspension points *)
(* are the awaited handler of the middleware and the transport's send.  An  *)
(* action is therefore everything a task does between two suspensions.      *)
(***************************************************************************)
EXTENDS Integers, Sequences, FiniteSets, TLC

\* ---------------------------------------------------------------- bounds
NumTasks == 2
MaxEnvelopes == 3
MaxThreshold == 2
MaxFlushCalls == 1
MaxMiddlewares == 1
MaxKeyLen == 2
MaxFrames == 2
MaxStatus == 510
MaxHookRuns == 1

Tasks == 1..NumTasks

\* The falsy item (None): put ignores it, the drain loop stops at it.
None == 0
Truthy(item) == item # None

\* What a failing send raises: OperationFailed, for a status other than 200.
Errors == {"OperationFailed"}

\* What the awaited handler of the middleware produces.
Outcomes == {"response", "HTTPException", "Exception", "BaseException"}

VARIABLES
    max_length,   \* TelemetryChannel._max_length, the flush threshold
    queue,        \* TelemetryChannel._queue, oldest first
    nextId,       \* the next envelope a track_* call builds
    sends,        \* every invocation of send so far, in invocation order
    closed,       \* how many times the channel's dispose has run
    pc,           \* per task: "idle", "handler" (awaiting the handler),
                  \* "sending" (awaiting send), "done" (handing back to its caller)
    call,         \* per task: the call it is in
    result,       \* per task: what the caller of that call observes
    script,       \* "puts" while only sequential puts ran, "dispose" once a
                  \* client dispose followed them, "other" otherwise
    http,         \* AiohttpTelemetryChannel._dispose_client, and whether its
                  \* _http_client (the session) has been closed
    fn,           \* the pure function under evaluation: its name, its
                  \* arguments and, once evaluated, what it gave
    setup,        \* what use_application_insights was given (user_getter,
                  \* is_success_request) and the status the handler's
                  \* response or HTTPException carries
    hook,         \* sys.excepthook: whether the client's hook is installed,
                  \* how often it ran and how often it called the previous one
    durations     \* RequestData.duration of the envelopes track_request built
                  \* with a duration, by envelope

vars == <<max_length, queue, nextId, sends, closed, pc, call, result, script,
          http, fn, setup, hook, durations>>

\* The record of one call: op is "put", "flush", "dispose" or "middleware";
\* item and qlen are the item handed to put and the queue length right after
\* its append; sidx is the place in `sends` of the send the call invoked last
\* (0: none) and sres how that send ended; released says the channel's dispose
\* ran in this client dispose and nid0 is nextId when that dispose started.
\* For the middleware: filtered (the request
\* filter matched), outcome (what the handler produced), stage (the track
\* call reached), caught (the exception the running except clause holds),
\* nreq / nexc (track_request / track_exception invocations) and tfail (a
\* track call raised), tid (the telemetry_id attached to the request, "" for
\* none), trace (what the middleware has called so far, in order) and emitted
\* (the envelopes its track calls have built).  For the excepthook: previous
\* (how often this run called the hook that was installed before).  The
\* teardown hook ("cleanup") and the excepthook keep in stage which of their
\* two awaits they are in.
NoCall ==
    [op |-> "none", item |-> None, qlen |-> 0, sidx |-> 0, sres |-> "none",
     released |-> FALSE, nid0 |-> 0,
     stage |-> "none", outcome |-> "none", filtered |-> FALSE,
     caught |-> "none", nreq |-> 0, nexc |-> 0, tfail |-> FALSE,
     tid |-> "", trace |-> <<>>, emitted |-> <<>>, previous |-> 0]

\* ---------------------------------------------------------------- channel

\* TelemetryChannel.get: the head of the queue, or None when it is empty.
get(q) == IF q = <<>> THEN None ELSE Head(q)

\* The queue after one get_nowait.
AfterGet(q) == IF q = <<>> THEN q ELSE Tail(q)

\* Mutant of NoneDone: a send in flight holds the event loop too (a blocking
\* send).
NoneDoneNorSending == \A t \in Tasks : pc[t] \notin {"done", "sending"}

\* A finished call hands its result to its caller before any task runs on.
NoneDone == \A t \in Tasks : pc[t] # "done"

\* Mutant of should_flush: a strict comparison.
should_flush_strict(q, ml) == ml < Len(q)

\* TelemetryChannel.should_flush
should_flush(q, ml) == ml <= Len(q)

\* Mutant of drain: the batch is read without popping it off the queue.
drain_keep(q) == [data |-> q, rest |-> q]

\* Mutant of drain: an `if` for the `while`, one item per flush.
drain_one(q) ==
    IF q = <<>> THEN [data |-> <<>>, rest |-> q]
    ELSE [data |-> <<Head(q)>>, rest |-> Tail(q)]

\* Mutant of drain: the batch is built newest first.
drain_lifo(q) ==
    [data |-> [k \in 1..Len(q) |-> q[Len(q) + 1 - k]], rest |-> <<>>]

\* Mutant of drain: the item popped last never reaches the batch.
drain_drop(q) ==
    [data |-> SubSeq(q, 1, Len(q) - 1), rest |-> <<>>]

\* The drain loop of flush: pops until get returns a falsy item.
RECURSIVE drain(_)
drain(q) ==
    LET item == get(q) IN
    IF ~Truthy(item)
    THEN [data |-> <<>>, rest |-> AfterGet(q)]
    ELSE LET r == drain(AfterGet(q)) IN
         [data |-> <<item>> \o r.data, rest |-> r.rest]

\* The shared state a call reads and writes.
Shared == [q |-> queue, sends |-> sends, nid |-> nextId]

\* TelemetryChannel.flush up to the suspension in send: drain, then hand the
\* batch (empty or not) to send.
flush(t, sh, from) ==
    LET d == drain(sh.q) IN
    [sh EXCEPT !.q = d.rest,
               !.sends = Append(sh.sends,
                   [data |-> d.data, from |-> from])]

\* Whether put(item) reaches the send (and so suspends).
PutFlushes(sh, item, ml) ==
    Truthy(item) /\ should_flush(Append(sh.q, item), ml)

\* Mutant of put: the threshold is tested for a falsy item too.
put_falsy_flushes(t, sh, item, ml) ==
    LET sh1 == IF Truthy(item) THEN [sh EXCEPT !.q = Append(sh.q, item)] ELSE sh IN
    IF should_flush(sh1.q, ml) THEN flush(t, sh1, "put") ELSE sh1

\* Mutant of put: no `if not item: return`, a falsy item is queued too.
put_queues_falsy(t, sh, item, ml) ==
    LET sh1 == [sh EXCEPT !.q = Append(sh.q, item)] IN
    IF should_flush(sh1.q, ml) THEN flush(t, sh1, "put") ELSE sh1

\* TelemetryChannel.put up to its return or its suspension in send.
put(t, sh, item, ml) ==
    IF ~Truthy(item) THEN sh
    ELSE LET sh1 == [sh EXCEPT !.q = Append(sh.q, item)] IN
         IF should_flush(sh1.q, ml) THEN flush(t, sh1, "put") ELSE sh1

AllIdle == \A t \in Tasks : pc[t] = "idle"

\* The requests inside the middleware right now.
MwRunning == Cardinality({t \in Tasks : call[t].op = "middleware"})

\* The sends made so far by direct flush calls and by client disposes.
ExplicitFlushes ==
    Cardinality({i \in 1..Len(sends) : sends[i].from # "put"})

\* use_application_insights with a user_getter and the default classifier;
\* the handler answers 200.
DefaultSetup ==
    [user_getter |-> TRUE, is_success_request |-> "default", status |-> 200]

\* sys.excepthook as the interpreter starts: the client's hook is not
\* installed.
NoHook == [installed |-> FALSE, runs |-> 0, previous_calls |-> 0]

\* No pure function is under evaluation.
NoFn == [name |-> "none", arg |-> <<>>, out |-> <<>>, done |-> FALSE]

\* A fresh channel and client (AiohttpTelemetryChannel() creates its own
\* session, so it owns it).  __init__ sets _max_length to 500; the owner
\* of the channel may assign any threshold >= 1 before use, and every run
\* keeps the one it starts with.
Init ==
    /\ max_length \in 1..MaxThreshold
    /\ queue = <<>>
    /\ nextId = 1
    /\ sends = <<>>
    /\ closed = 0
    /\ pc = [t \in Tasks |-> "idle"]
    /\ call = [t \in Tasks |-> NoCall]
    /\ result = [t \in Tasks |-> "none"]
    /\ script = "puts"
    /\ http = [dispose_client |-> TRUE, closed |-> FALSE]
    /\ fn = NoFn
    /\ setup = DefaultSetup
    /\ hook = NoHook
    /\ durations = <<>>

\* ---------------------------------------------------------------- client

\* How a call leaves the task: its shared state, its call record, where the
\* task is and what its caller has observed so far.
Step(sh, c, at, res) == [sh |-> sh, c |-> c, pc |-> at, res |-> res]

Install(t, m) ==
    /\ m.sh.nid <= MaxEnvelopes + 1
    /\ queue' = m.sh.q
    /\ sends' = m.sh.sends
    /\ nextId' = m.sh.nid
    /\ pc' = [pc EXCEPT ![t] = m.pc]
    /\ call' = [call EXCEPT ![t] = m.c]
    /\ result' = [result EXCEPT ![t] = m.res]

\* AsyncTelemetryClient.push(data), as every track_* call ends: channel.put.
\* item is the envelope just built, or a falsy value handed to push directly.
push(t, item) ==
    LET sh == put(t, Shared, item, max_length)
        sent == PutFlushes(Shared, item, max_length)
        c == [NoCall EXCEPT !.op = "put", !.item = item,
                            !.qlen = Len(queue) + (IF Truthy(item) THEN 1 ELSE 0),
                            !.sidx = IF sent THEN Len(sh.sends) ELSE 0]
    IN  Step([sh EXCEPT !.nid = IF Truthy(item) THEN item + 1 ELSE @], c,
             IF sent THEN "sending" ELSE "done",
             IF sent THEN "none" ELSE "ok")

\* TelemetryChannel.flush after `await self.send(data)` ended with r ("ok" or
\* the error it raised): nothing is caught, nothing is put back.
flush_end(r) == r

\* Mutant of put_end: put swallows the error of the flush it triggered.
put_end_swallow(r) == "ok"

\* TelemetryChannel.put after `await self.flush()` ended with r.
put_end(r) == flush_end(r)

\* Mutant of dispose_end: no finally, the channel's dispose is skipped when
\* the flush raised.
dispose_end_no_finally(r) == [released |-> r = "ok", res |-> flush_end(r)]

\* AsyncTelemetryClient.dispose after its flush ended with r: the finally
\* clause runs the channel's dispose (closing a session does not raise), then
\* the flush's error (if any) goes on.
dispose_end(r) == [released |-> TRUE, res |-> flush_end(r)]

\* ---------------------------------------------------------------- pure functions
\* The functions below take no part in the scheduling: each is evaluated in
\* one step on arguments drawn from bounded sets.

\* The argument and the result of the function under evaluation.
FnCall(name, arg) == [name |-> name, arg |-> arg, out |-> <<>>, done |-> FALSE]

\* The characters a string is made of: two that str.isspace accepts, one it
\* does not.
Whitespace == {" ", "\t"}
Chars == Whitespace \cup {"a"}
Strs(n) == UNION {[1..k -> Chars] : k \in 0..n}

\* A Python value handed to a constructor: None, a str, or some object.
PyNone == [kind |-> "none", chars |-> <<>>]
PyStr(chars) == [kind |-> "str", chars |-> chars]
PyObject == [kind |-> "object", chars |-> <<>>]

\* `not value`: None and the empty str are falsy, an object without __bool__
\* and __len__ is truthy.
not(value) ==
    \/ value.kind = "none"
    \/ value.kind = "str" /\ value.chars = <<>>

\* str.isspace: at least one character, and whitespace only.
isspace(chars) ==
    chars # <<>> /\ \A k \in 1..Len(chars) : chars[k] \in Whitespace

\* Mutant of is_empty_string: a whitespace-only string passes.
is_empty_string_never(value) == FALSE

\* utils.is_empty_string
is_empty_string(value) == value.kind = "str" /\ isspace(value.chars)

\* utils.require_params(**kwargs): the first keyword whose value is falsy or
\* whitespace-only raises ArgumentNullException(name).
RECURSIVE require_params(_)
require_params(kwargs) ==
    IF kwargs = <<>> THEN [raised |-> "none", name |-> ""]
    ELSE LET kw == Head(kwargs) IN
         IF not(kw.value) \/ is_empty_string(kw.value)
         THEN [raised |-> "ArgumentNullException", name |-> kw.name]
         ELSE require_params(Tail(kwargs))

\* AsyncTelemetryClient.__init__: require_params first, the assignments only
\* when it returned.
client_init(instrumentation_key, channel) ==
    LET r == require_params(<<
                 [name |-> "instrumentation_key", value |-> instrumentation_key],
                 [name |-> "channel", value |-> channel]>>)
    IN  IF r.raised # "none"
        THEN [client |-> FALSE, raised |-> r.raised, name |-> r.name]
        ELSE [client |-> TRUE, raised |-> "none", name |-> ""]

ClientInitInputs ==
    {FnCall("client_init", [instrumentation_key |-> k, channel |-> c]) :
        k \in {PyNone} \cup {PyStr(cs) : cs \in Strs(MaxKeyLen)},
        c \in {PyNone, PyObject}}

\* The evaluation of a function leaves the channel and the tasks alone.
FnFrame ==
    UNCHANGED <<max_length, queue, nextId, sends, closed, pc, call, result,
                script, http, setup, durations, hook>>

Returns(name, out) ==
    /\ fn.name = name
    /\ ~fn.done
    /\ fn' = [fn EXCEPT !.out = out, !.done = TRUE]

\* AsyncTelemetryClient(instrumentation_key, channel)
ClientInit ==
    /\ Returns("client_init", client_init(fn.arg.instrumentation_key, fn.arg.channel))
    /\ FnFrame

\* ---- tags

\* An absent optional argument (None), and the entities of entities.py.
Absent == [present |-> FALSE]
Operation(id, name) == [present |-> TRUE, id |-> id, name |-> name]
Session(id) == [present |-> TRUE, id |-> id]
User(account_id, id, session_id) ==
    [present |-> TRUE, account_id |-> account_id, id |-> id,
     session_id |-> session_id]
Application(version) == [present |-> TRUE, version |-> version]

\* The empty dict.
EmptyDict == [k \in {} |-> ""]

\* Mutant of update: a key already present keeps its value.
update_keep(d, e) ==
    [k \in DOMAIN d \cup DOMAIN e |-> IF k \in DOMAIN d THEN d[k] ELSE e[k]]

\* dict.update: the keys of e are added, and replace those d already has.
update(d, e) ==
    [k \in DOMAIN d \cup DOMAIN e |-> IF k \in DOMAIN e THEN e[k] ELSE d[k]]

Operation_to_dict(o) ==
    [k \in {"ai.operation.id", "ai.operation.name"} |->
        IF k = "ai.operation.id" THEN o.id ELSE o.name]

Session_to_dict(x) == [k \in {"ai.session.id"} |-> x.id]

\* User.to_dict: a key only for a truthy attribute; the session id of the
\* user goes under the key a Session uses.
User_to_dict(u) ==
    LET data1 == IF u.account_id # ""
                 THEN update(EmptyDict, [k \in {"ai.user.accountId"} |-> u.account_id])
                 ELSE EmptyDict
        data2 == IF u.session_id # ""
                 THEN update(data1, [k \in {"ai.session.id"} |-> u.session_id])
                 ELSE data1
    IN  IF u.id # ""
        THEN update(data2, [k \in {"ai.user.id"} |-> u.id])
        ELSE data2

\* LoggingDevice.to_dict, on the values __init__ read from the platform.
LoggingDevice_to_dict ==
    [k \in {"ai.device.id", "ai.device.locale", "ai.device.osVersion",
            "ai.device.type"} |->
        CASE k = "ai.device.id" -> "node"
          [] k = "ai.device.locale" -> "en_US"
          [] k = "ai.device.osVersion" -> "os"
          [] OTHER -> "PC"]

Application_to_dict(a) == [k \in {"ai.application.ver"} |-> a.version]

COMMON_TAGS == [k \in {"ai.internal.sdkVersion"} |-> "asynpy3:0.0.1"]

\* AsyncTelemetryClient.get_tags, for a client whose context holds
\* `application` (or None) and the default device.
get_tags(application, operation, session, user) ==
    LET tags0 == LoggingDevice_to_dict
        tags1 == IF application.present
                 THEN update(tags0, Application_to_dict(application)) ELSE tags0
        tags2 == IF operation.present
                 THEN update(tags1, Operation_to_dict(operation)) ELSE tags1
        tags3 == IF user.present
                 THEN update(tags2, User_to_dict(user)) ELSE tags2
        tags4 == IF session.present
                 THEN update(tags3, Session_to_dict(session)) ELSE tags3
    IN  update(tags4, COMMON_TAGS)

\* Attribute values: the empty string is the falsy one.
Operations == {Absent, Operation("op-1", <<"GET", " ", "/">>)}
Sessions == {Absent, Session("s-explicit"), Session("")}
Users ==
    {Absent} \cup {User(a, i, x) : a \in {"", "acc"}, i \in {"", "uid"},
                                   x \in {"", "s-user"}}
Applications == {Absent, Application("1.0")}

GetTagsInputs ==
    {FnCall("get_tags", [application |-> a, operation |-> o, session |-> x,
                         user |-> u]) :
        a \in Applications, o \in Operations, x \in Sessions, u \in Users}

\* client.get_tags(operation, session, user)
GetTags ==
    /\ Returns("get_tags", get_tags(fn.arg.application, fn.arg.operation,
                                    fn.arg.session, fn.arg.user))
    /\ FnFrame

\* ---- track_request

\* An optional argument that was given.
Some(v) == [present |-> TRUE, v |-> v]

\* `x or default` for an optional string: None and "" give the default.
OrElse(x, default) == IF x.present /\ x.v # "" THEN x.v ELSE default

\* str(x) inside an f-string: None prints as "None".
Str(x) == IF x.present THEN x.v ELSE "None"

\* What str(uuid.uuid4()) may give: never an id a caller supplied.
Uuids == {"uuid-a", "uuid-b"}

\* Mutant of SynthOperation: the operation is named after the request name
\* alone.
SynthOperationNameOnly(request_id, http_method, name) ==
    Operation(request_id, <<name>>)

\* Operation(request_id, f'{http_method} {name}')
SynthOperation(request_id, http_method, name) ==
    Operation(request_id, <<Str(http_method), " ", name>>)

\* RequestData.__init__: int(response_code) raises TypeError for None.
RequestData(id, name, http_method, response_code, success, duration) ==
    IF ~response_code.present THEN [raised |-> "TypeError"]
    ELSE [raised |-> "none", id |-> id, name |-> name,
          http_method |-> http_method, response_code |-> response_code.v,
          success |-> success, duration |-> duration]

\* AsyncTelemetryClient.track_request up to `await self.push(data)`: the
\* envelope it builds, uuid being what uuid4 gives if it is asked.
track_request(a, uuid) ==
    LET request_id == OrElse(a.id, uuid)
        operation == IF ~a.operation.present
                     THEN SynthOperation(request_id, a.http_method, a.name)
                     ELSE a.operation
        data == RequestData(request_id, a.name, a.http_method, a.response_code,
                            a.success,
                            IF a.duration.present THEN a.duration.v ELSE 0)
    IN  IF data.raised # "none" THEN [raised |-> data.raised]
        ELSE [raised |-> "none", data |-> data,
              tags |-> get_tags(Absent, operation, Absent, a.user)]

TrackRequestInputs ==
    {FnCall("track_request",
            [id |-> i, name |-> n, http_method |-> m, response_code |-> rc,
             success |-> TRUE, duration |-> Absent, operation |-> o,
             user |-> u]) :
        i \in {Absent, Some(""), Some("req-1")},
        n \in {"/", "/items"},
        m \in {Absent, Some("GET"), Some("POST")},
        rc \in {Absent, Some(200)},
        o \in Operations,
        u \in {Absent, User("acc", "uid", "s-user")}}

\* client.track_request(...): builds the envelope and pushes it, unless the
\* construction of the RequestData raised.
TrackRequest(t) ==
    /\ AllIdle
    /\ \E uuid \in Uuids :
          LET env == track_request(fn.arg, uuid) IN
          /\ Returns("track_request", env)
          /\ IF env.raised # "none"
             THEN UNCHANGED <<queue, nextId, sends, pc, call, result>>
             ELSE Install(t, push(t, nextId))
    /\ script' = "other"
    /\ UNCHANGED <<max_length, closed, http, setup, durations, hook>>

\* ---- track_exception

\* The entries traceback.extract_tb gives for a traceback of n frames caught
\* at `where`: oldest call first, each with the text of its source line.
extract_tb(where, n) ==
    [k \in 1..n |-> [tb |-> where, depth |-> k, text |-> <<"line", where, k>>]]

\* `if skip_frames:` is taken for every int but 0, and not for None.
SkipTruthy(skip_frames) == skip_frames.present /\ skip_frames.v # 0

\* The loop of ExceptionDetails.from_exception over the entries still to
\* visit: a truthy skip_frames is decremented and the entry dropped, else the
\* entry's text is appended to texts and the entry becomes the StackFrame of
\* level `index`.
RECURSIVE frames_loop(_, _, _, _, _)
frames_loop(entries, skip_frames, stack, texts, index) ==
    IF entries = <<>> THEN [stack |-> stack, texts |-> texts]
    ELSE IF SkipTruthy(skip_frames)
         THEN frames_loop(Tail(entries), Some(skip_frames.v - 1), stack, texts,
                          index)
         ELSE frames_loop(Tail(entries), skip_frames,
                          Append(stack,
                                 [level |-> index,
                                  frame |-> [tb |-> Head(entries).tb,
                                             depth |-> Head(entries).depth]]),
                          Append(texts, Head(entries).text),
                          index + 1)

\* list.reverse
reverse(l) == [k \in 1..Len(l) |-> l[Len(l) + 1 - k]]

\* Mutant of from_exception: texts is left in the order of the loop.
from_exception_texts_kept(tb, skip_frames) ==
    LET l == frames_loop(tb, skip_frames, <<>>, <<>>, 0) IN
    [stack |-> reverse(l.stack), texts |-> l.texts]

\* ExceptionDetails.from_exception(type, value, tb, skip_frames): the stack
\* and the texts of the details.
from_exception(tb, skip_frames) ==
    LET l == frames_loop(tb, skip_frames, <<>>, <<>>, 0) IN
    [stack |-> reverse(l.stack), texts |-> reverse(l.texts)]

\* The traceback track_exception hands to from_exception: the caller's when
\* type, value and tb are all given, else the one of sys.exc_info(), else
\* (no exception is being handled) the one of the exception it raises and
\* catches itself, whose only frame is track_exception's own.
exception_tb(a) ==
    IF a.type /\ a.value /\ a.frames > 0 THEN extract_tb("given", a.frames)
    ELSE IF a.ambient > 0 THEN extract_tb("ambient", a.ambient)
    ELSE extract_tb("synthetic", 1)

\* AsyncTelemetryClient.track_exception up to `await self.push(data)`: the
\* stack and texts of the envelope's ExceptionDetails and the code_{index}
\* properties (text_portions, keyed by index).
track_exception(a) ==
    LET tb == exception_tb(a)
        details == from_exception(tb, a.skip_frames)
    IN  [raised |-> "none", source |-> tb[1].tb, stack |-> details.stack,
         texts |-> details.texts,
         text_portions |-> [index \in 0..(Len(details.texts) - 1) |->
                               details.texts[index + 1]],
         tags |-> get_tags(Absent, a.operation, Absent, a.user)]

\* type and value given or not; frames: the length of the traceback given
\* (0: no tb); ambient: the length of the traceback of the exception being
\* handled (0: none); skip_frames: None or an int.
TrackExceptionInputs ==
    {FnCall("track_exception",
            [type |-> ty, value |-> v, frames |-> n, ambient |-> m,
             skip_frames |-> sk, operation |-> Absent, user |-> Absent]) :
        ty \in BOOLEAN, v \in BOOLEAN, n \in 0..MaxFrames, m \in 0..MaxFrames,
        sk \in {Absent} \cup {Some(k) : k \in -1..(MaxFrames + 1)}}

\* client.track_exception(...): builds the envelope and pushes it.
TrackException(t) ==
    /\ AllIdle
    /\ Returns("track_exception", track_exception(fn.arg))
    /\ Install(t, push(t, nextId))
    /\ script' = "other"
    /\ UNCHANGED <<max_length, closed, http, setup, durations, hook>>

\* ---- default_is_success_request

client_errors_request_handling_success == {401, 403, 404, 405}

\* Mutant of default_is_success_request: 400 counts as handled too.
default_is_success_request_le(status) ==
    IF status <= 400 THEN TRUE
    ELSE status \in client_errors_request_handling_success

\* aiohttp.default_is_success_request
default_is_success_request(status) ==
    IF status < 400 THEN TRUE
    ELSE IF status \in client_errors_request_handling_success THEN TRUE
    ELSE FALSE

IsSuccessInputs ==
    {FnCall("default_is_success_request", status) : status \in (-1)..MaxStatus}

IsSuccess ==
    /\ Returns("default_is_success_request", default_is_success_request(fn.arg))
    /\ FnFrame

\* ---- format_duration

DigitChars == <<"0", "1", "2", "3", "4", "5", "6", "7", "8", "9">>

\* '%d' for n >= 0: its decimal digits.
RECURSIVE Digits(_)
Digits(n) ==
    IF n < 10 THEN <<DigitChars[n + 1]>>
    ELSE Append(Digits(n \div 10), DigitChars[(n % 10) + 1])

\* Mutant of Pad: no padding.
PadNone(ds, width) == ds

\* The zero padding of '%0<width>d': zeros in front up to the width, nothing
\* cut off.
Pad(ds, width) ==
    [k \in 1..(width - Len(ds)) |-> "0"] \o ds

\* The loop `for multiplier in [1000, 60, 60, 24]` from its i-th round on:
\* the parts appended and what is left of duration.
RECURSIVE parts_loop(_, _, _, _)
parts_loop(multipliers, i, duration, parts) ==
    IF i > Len(multipliers) THEN [parts |-> parts, duration |-> duration]
    ELSE parts_loop(multipliers, i + 1, duration \div multipliers[i],
                    Append(parts, duration % multipliers[i]))

\* Mutant of DaysLeft: one whole day is not enough for the prefix.
DaysLeftOverOne(duration) == duration > 1

\* `if duration:` after the loop: what is left of duration is the number of
\* whole days.
DaysLeft(duration) == duration # 0

\* RequestData.format_duration; None is Absent.
format_duration(arg) ==
    LET duration == IF ~arg.present \/ arg.v = 0 THEN 0 ELSE arg.v IN
    IF duration < 0 THEN [raised |-> "ValueError", s |-> <<>>]
    ELSE LET l == parts_loop(<<1000, 60, 60, 24>>, 1, duration, <<>>)
             parts == reverse(l.parts)
             formatted_duration ==
                 Pad(Digits(parts[1]), 2) \o <<":">> \o
                 Pad(Digits(parts[2]), 2) \o <<":">> \o
                 Pad(Digits(parts[3]), 2) \o <<".">> \o
                 Pad(Digits(parts[4]), 3)
         IN  [raised |-> "none",
              s |-> IF DaysLeft(l.duration)
                    THEN Digits(l.duration) \o <<".">> \o formatted_duration
                    ELSE formatted_duration]

\* Durations in milliseconds: days, hours, minutes, seconds and milliseconds
\* at the ends and in the middle of their ranges, and negative ones.
Millis(d, h, m, x, f) == (((d * 24 + h) * 60 + m) * 60 + x) * 1000 + f

FormatDurationInputs ==
    {FnCall("format_duration", a) :
        a \in {Absent} \cup {Some(-1), Some(-16150)} \cup
              {Some(Millis(d, h, m, x, f)) :
                  d \in {0, 1, 12}, h \in {0, 1, 23}, m \in {0, 1, 59},
                  x \in {0, 16, 59}, f \in {0, 5, 15, 150, 255, 999}}}

FormatDuration ==
    /\ Returns("format_duration", format_duration(fn.arg))
    /\ FnFrame

\* ---------------------------------------------------------------- middleware
\* The clock, the user resolver and the success classifier are injected pure
\* callables: they return, and what they return only fills the arguments of
\* the track calls, so the control flow below does not depend on them.

\* str(uuid.uuid4()) as the middleware calls it for the request task t
\* handles: an id of its own for each.
TaskUuid(t) == <<"uuid-a", "uuid-b", "uuid-c", "uuid-d">>[t]

\* The injected is_success_request: the default one, or one that answers the
\* same for every status.
is_success_request(status) ==
    CASE setup.is_success_request = "default" -> default_is_success_request(status)
      [] setup.is_success_request = "always" -> TRUE
      [] OTHER -> FALSE

\* `if user_getter: user_data = user_getter(request)`, else the None that
\* user_data was initialised with.
user_getter == IF setup.user_getter THEN User("acc", "uid", "s-user") ELSE Absent

\* Mutant of MwEnter: the filter's answer is ignored.
MwEnterIgnoresFilter(t, filtered) ==
    [NoCall EXCEPT !.op = "middleware", !.filtered = filtered,
                   !.tid = TaskUuid(t),
                   !.trace = <<"time_getter", "telemetry_id", "handler">>]

\* Mutant of MwEnter: the user is resolved before the handler is awaited.
MwEnterResolvesFirst(t, filtered) ==
    [NoCall EXCEPT !.op = "middleware", !.filtered = filtered,
                   !.tid = IF filtered THEN "" ELSE TaskUuid(t),
                   !.trace = IF filtered THEN <<"handler">>
                             ELSE <<"time_getter", "telemetry_id", "user_getter",
                                    "handler">>]

\* The middleware up to `await handler(request)`: for a filtered request
\* nothing but the handler; else the clock is read and the telemetry id is
\* generated and attached to the request first.
MwEnter(t, filtered) ==
    [NoCall EXCEPT !.op = "middleware", !.filtered = filtered,
                   !.tid = IF filtered THEN "" ELSE TaskUuid(t),
                   !.trace = IF filtered THEN <<"handler">>
                             ELSE <<"time_getter", "telemetry_id", "handler">>]

\* Mutant of BranchSuccess: `except Exception` asks the classifier too.
BranchSuccessClassified(stage, status) == is_success_request(status)

\* The status of the request record: the response's, the HTTPException's,
\* or 500 in `except Exception`.
BranchStatus(stage) == IF stage = "exc_request" THEN 500 ELSE setup.status

\* Its success: the classifier's answer for that status, or False in `except
\* Exception`.
BranchSuccess(stage, status) ==
    IF stage = "exc_request" THEN FALSE ELSE is_success_request(status)

\* The tag `key` of an envelope, "" when it has none.
Tag(tags, key) == IF key \in DOMAIN tags THEN tags[key] ELSE ""

\* The envelope the track call of `stage` builds: track_request(telemetry_id,
\* req_name, req_url, success, start_datetime, elapsed_ms, status,
\* request.method, user=user_data), or track_exception(exception.__class__,
\* exception, exception.__traceback__, user=user_data, skip_frames=1).  Of
\* the envelope: its kind, the stage that built it, the request id, status and success (a request), the
\* length of the stack and the skip_frames it was cut with (an exception),
\* and the operation and user tags.
MwEnvelope(c, stage) ==
    IF stage = "exc_exception"
    THEN LET skip_frames == Some(1)
             env == track_exception(
                        [type |-> TRUE, value |-> TRUE, frames |-> MaxFrames,
                         ambient |-> MaxFrames, skip_frames |-> skip_frames,
                         operation |-> Absent, user |-> user_getter])
         IN  [kind |-> "exception", stage |-> stage,
              id |-> "", status |-> 0, success |-> FALSE,
              skip_frames |-> skip_frames.v, frames |-> Len(env.stack),
              operation_id |-> Tag(env.tags, "ai.operation.id"),
              user_id |-> Tag(env.tags, "ai.user.id")]
    ELSE LET status == BranchStatus(stage)
             env == track_request(
                        [id |-> Some(c.tid), name |-> "/",
                         http_method |-> Some("GET"),
                         response_code |-> Some(status),
                         success |-> BranchSuccess(stage, status),
                         duration |-> Some(0), operation |-> Absent,
                         user |-> user_getter], TaskUuid(1))
         IN  [kind |-> "request", stage |-> stage, id |-> env.data.id,
              status |-> env.data.response_code, success |-> env.data.success,
              skip_frames |-> 0, frames |-> 0,
              operation_id |-> Tag(env.tags, "ai.operation.id"),
              user_id |-> Tag(env.tags, "ai.user.id")]

\* What the middleware calls at `stage`, in order.
MwCalls(stage) ==
    CASE stage = "exc_exception" -> <<"track_exception">>
      [] stage = "exc_request" ->
             (IF setup.user_getter THEN <<"user_getter">> ELSE <<>>)
                 \o <<"track_request">>
      [] OTHER ->
             (IF setup.user_getter THEN <<"user_getter">> ELSE <<>>)
                 \o <<"is_success_request", "track_request">>

\* Which except clause of the middleware's try statement catches an error
\* raised inside the try block: HTTPException first, then Exception (the
\* errors of a track call are plain Exceptions), none for a BaseException.
ExceptClause(e) ==
    CASE e = "HTTPException" -> "http"
      [] e = "BaseException" -> "none"
      [] OTHER -> "exc_request"

\* Mutant of BranchResult: the final `raise` of `except Exception` is missing,
\* the middleware returns None.
BranchResultNoRaise(c) ==
    CASE c.stage = "try" -> "response"
      [] c.stage = "http" -> c.caught
      [] OTHER -> "None"

\* How a branch of the middleware ends once its track calls have returned:
\* `return response` in the try block, a bare `raise` in both except clauses.
BranchResult(c) ==
    IF c.stage = "try" THEN "response" ELSE c.caught

MwCount(c, stage) ==
    [c EXCEPT !.stage = stage,
              !.nreq = IF stage = "exc_exception" THEN @ ELSE @ + 1,
              !.nexc = IF stage = "exc_exception" THEN @ + 1 ELSE @,
              !.trace = @ \o MwCalls(stage),
              !.emitted = Append(@, MwEnvelope(c, stage))]

RECURSIVE MwTrack(_, _, _, _)
RECURSIVE MwAfterTrack(_, _, _, _)

\* One track call of the middleware, made at `stage`: track_request in the
\* try block ("try"), in `except HTTPException` ("http"), in `except
\* Exception` ("exc_request"), or track_exception there ("exc_exception").
\* The call builds the next envelope and pushes it.
MwTrack(t, sh, c, stage) ==
    LET item == sh.nid
        c1 == MwCount(c, stage)
        sh1 == [put(t, sh, item, max_length) EXCEPT !.nid = item + 1]
    IN  IF PutFlushes(sh, item, max_length)
        THEN Step(sh1, [c1 EXCEPT !.sidx = Len(sh1.sends)], "sending", "none")
        ELSE MwAfterTrack(t, sh1, c1, "ok")

\* The middleware after the track call of c.stage ended with r.
MwAfterTrack(t, sh, c, r) ==
    LET cf == [c EXCEPT !.tfail = TRUE] IN
    CASE c.stage = "try" /\ r = "ok" ->
             Step(sh, c, "done", BranchResult(c))
      [] c.stage = "try" /\ r # "ok" ->
             \* raised inside the try block: an except clause catches it
             MwTrack(t, sh, [cf EXCEPT !.caught = r], ExceptClause(r))
      [] c.stage = "http" /\ r = "ok" ->
             Step(sh, c, "done", BranchResult(c))
      [] c.stage = "exc_request" /\ r = "ok" ->
             MwTrack(t, sh, c, "exc_exception")
      [] c.stage = "exc_exception" /\ r = "ok" ->
             Step(sh, c, "done", BranchResult(c))
      [] OTHER ->
             \* raised inside an except clause: it leaves the middleware
             Step(sh, cf, "done", r)

\* application_insights_middleware once `await handler(request)` ended with
\* outcome o.
MwAfterHandler(t, sh, c, o) ==
    LET c1 == [c EXCEPT !.outcome = o,
                        !.caught = IF o = "response" THEN "none" ELSE o,
                        !.trace = Append(@, "handler_done")]
    IN
    IF c.filtered THEN Step(sh, c1, "done", o)
    ELSE CASE o = "response" -> MwTrack(t, sh, c1, "try")
           [] ExceptClause(o) = "none" -> Step(sh, c1, "done", o)
           [] OTHER -> MwTrack(t, sh, c1, ExceptClause(o))

\* application_insights_middleware up to `await handler(request)`: the filter
\* decides between the pass-through and the instrumented path.
Middleware(t, filtered) ==
    /\ pc[t] = "idle"
    /\ NoneDone
    /\ nextId <= MaxEnvelopes
    /\ MwRunning < MaxMiddlewares
    /\ pc' = [pc EXCEPT ![t] = "handler"]
    /\ call' = [call EXCEPT ![t] = MwEnter(t, filtered)]
    /\ result' = [result EXCEPT ![t] = "none"]
    /\ script' = "other"
    /\ UNCHANGED <<fn, setup, durations, hook, http, max_length, queue, nextId, sends, closed>>

\* The awaited handler returns or raises.
HandlerDone(t, o) ==
    /\ pc[t] = "handler"
    /\ NoneDone
    /\ Install(t, MwAfterHandler(t, Shared, call[t], o))
    /\ UNCHANGED <<fn, setup, durations, hook, http, max_length, closed, script>>

\* ---------------------------------------------------------------- transport

\* Mutant of channel_dispose: the session is closed whoever supplied it.
channel_dispose_always(sh, h) ==
    [sh |-> sh, http |-> [h EXCEPT !.closed = TRUE]]

\* AiohttpTelemetryChannel.dispose: `if self._dispose_client: await
\* self._http_client.close()` and nothing else.
channel_dispose(sh, h) ==
    [sh |-> sh,
     http |-> IF h.dispose_client THEN [h EXCEPT !.closed = TRUE] ELSE h]

\* What a call that ends its send leaves: the task's step and the closed
\* count, the session and the excepthook after it.
Ended(m, cl, h, hk) == [m |-> m, closed |-> cl, http |-> h, hook |-> hk]

\* The client's dispose after its flush ended with r, for the call c.
DisposeEnded(sh, c, r) ==
    LET d == dispose_end(r)
        cd == IF d.released THEN channel_dispose(sh, http)
              ELSE [sh |-> sh, http |-> http]
    IN  Ended(Step(cd.sh, [c EXCEPT !.released = d.released], "done", d.res),
              IF d.released THEN closed + 1 ELSE closed, cd.http, hook)

\* `await client.dispose()` of the teardown hook, up to the suspension of
\* its flush.
cleanup_dispose(t, sh, c) ==
    LET sh1 == flush(t, sh, "dispose") IN
    Step(sh1, [c EXCEPT !.stage = "dispose", !.sidx = Len(sh1.sends),
                        !.nid0 = sh.nid],
         "sending", "none")

\* on_clean_up_dispose_ai_client up to its first suspension:
\* track_event('Application_Stop') builds the stop event and pushes it; when
\* that put returns without a send, the dispose follows at once.
on_clean_up_dispose_ai_client(t, sh) ==
    LET item == sh.nid
        sh1 == [put(t, sh, item, max_length) EXCEPT !.nid = item + 1]
        c == [NoCall EXCEPT !.op = "cleanup", !.item = item, !.stage = "stop"]
    IN  IF PutFlushes(sh, item, max_length)
        THEN Step(sh1, [c EXCEPT !.sidx = Len(sh1.sends)], "sending", "none")
        ELSE cleanup_dispose(t, sh1, c)

\* The teardown hook after a send ended with r: an error of the stop event's
\* send leaves the hook at once (line 92 is not reached); after the dispose's
\* flush the channel's dispose runs.
CleanupEnded(t, sh, c, r) ==
    IF c.stage = "stop"
    THEN IF put_end(r) = "ok"
         THEN Ended(cleanup_dispose(t, sh, c), closed, http, hook)
         ELSE Ended(Step(sh, c, "done", put_end(r)), closed, http, hook)
    ELSE DisposeEnded(sh, c, r)

\* `await self.flush()` of log_exception_async, up to the suspension of its
\* send.
excepthook_flush(t, sh, c) ==
    LET sh1 == flush(t, sh, "excepthook") IN
    Step(sh1, [c EXCEPT !.stage = "flush", !.sidx = Len(sh1.sends)],
         "sending", "none")

\* local_excepthook up to its first suspension: run_until_complete starts
\* log_exception_async, whose track_exception builds the envelope and pushes
\* it; when that put returns without a send, the flush follows at once.
local_excepthook(t, sh) ==
    LET item == sh.nid
        sh1 == [put(t, sh, item, max_length) EXCEPT !.nid = item + 1]
        c == [NoCall EXCEPT !.op = "excepthook", !.item = item, !.stage = "track"]
    IN  IF PutFlushes(sh, item, max_length)
        THEN Step(sh1, [c EXCEPT !.sidx = Len(sh1.sends)], "sending", "none")
        ELSE excepthook_flush(t, sh1, c)

\* local_excepthook after a send ended with r: an error leaves
\* run_until_complete and the hook at once; when the flush has returned,
\* current_excepthook(type, value, traceback) is called.
ExcepthookEnded(t, sh, c, r) ==
    CASE c.stage = "track" /\ put_end(r) = "ok" ->
             Ended(excepthook_flush(t, sh, c), closed, http, hook)
      [] c.stage = "flush" /\ flush_end(r) = "ok" ->
             Ended(Step(sh, [c EXCEPT !.previous = @ + 1], "done", "ok"),
                   closed, http,
                   [hook EXCEPT !.previous_calls = @ + 1])
      [] OTHER ->
             Ended(Step(sh, c, "done", r), closed, http, hook)

\* What the call c of task t does when its send ends with r ("ok", or the
\* error it raised), sh being the shared state it finds.
SendEnded(t, sh, c, r) ==
    CASE c.op = "put" ->
           Ended(Step(sh, c, "done", put_end(r)), closed, http, hook)
      [] c.op = "flush" ->
           Ended(Step(sh, c, "done", flush_end(r)), closed, http, hook)
      [] c.op = "dispose" -> DisposeEnded(sh, c, r)
      [] c.op = "middleware" ->
           Ended(MwAfterTrack(t, sh, c, put_end(r)), closed, http, hook)
      [] c.op = "cleanup" -> CleanupEnded(t, sh, c, r)
      [] c.op = "excepthook" -> ExcepthookEnded(t, sh, c, r)

\* Mutant of friendly_dumps: a negative duration is written out as it is.
friendly_dumps_lenient(data, ds) == "none"

\* friendly_dumps(data), the first line of send: FriendlyEncoder calls
\* to_dict of every envelope, and RequestData.to_dict calls format_duration.
\* ds are the durations of the request envelopes; the result is what was
\* raised.
friendly_dumps(data, ds) ==
    IF \E k \in 1..Len(data) :
           /\ data[k] \in DOMAIN ds
           /\ format_duration(Some(ds[data[k]])).raised # "none"
    THEN "ValueError" ELSE "none"

\* What a put, a flush or a dispose of the client does when send raises r
\* before its post.
SendRaised(sh, c, r) ==
    CASE c.op = "put" ->
           Ended(Step(sh, c, "done", put_end(r)), closed, http, hook)
      [] c.op = "flush" ->
           Ended(Step(sh, c, "done", flush_end(r)), closed, http, hook)
      [] c.op = "dispose" -> DisposeEnded(sh, c, r)

\* AiohttpTelemetryChannel.send up to `await self._http_client.post`: when
\* the step m of task t has handed a batch to send and friendly_dumps raises,
\* the call ends in this very step, with no suspension and nothing posted.
SendBegun(t, m, ds) ==
    LET raised == IF m.pc = "sending"
                  THEN friendly_dumps(m.sh.sends[m.c.sidx].data, ds)
                  ELSE "none"
    IN  IF raised = "none" THEN Ended(m, closed, http, hook)
        ELSE SendRaised(m.sh, [m.c EXCEPT !.sres = raised], raised)

\* A call of task t runs up to its first suspension or to its end.
Begin(t, m, ds) ==
    LET e == SendBegun(t, m, ds) IN
    /\ Install(t, e.m)
    /\ closed' = e.closed
    /\ http' = e.http
    /\ hook' = e.hook

Push(t, item) ==
    /\ pc[t] = "idle"
    /\ NoneDone
    /\ nextId <= MaxEnvelopes
    /\ item \in {None, nextId}
    /\ Begin(t, push(t, item), durations)
    /\ script' = IF script = "puts" /\ AllIdle /\ Truthy(item)
                 THEN "puts" ELSE "other"
    /\ UNCHANGED <<fn, setup, durations, max_length>>

\* AsyncTelemetryClient.flush: channel.flush, called directly.
Flush(t) ==
    /\ pc[t] = "idle"
    /\ NoneDone
    /\ ExplicitFlushes < MaxFlushCalls
    /\ LET sh == flush(t, Shared, "flush") IN
       Begin(t, Step(sh, [NoCall EXCEPT !.op = "flush", !.sidx = Len(sh.sends)],
                     "sending", "none"),
             durations)
    /\ script' = "other"
    /\ UNCHANGED <<fn, setup, durations, max_length>>

\* AsyncTelemetryClient.dispose up to the suspension of its flush.
Dispose(t) ==
    /\ pc[t] = "idle"
    /\ NoneDone
    /\ ExplicitFlushes < MaxFlushCalls
    /\ LET sh == flush(t, Shared, "dispose") IN
       Begin(t, Step(sh, [NoCall EXCEPT !.op = "dispose", !.sidx = Len(sh.sends),
                                       !.nid0 = nextId],
                     "sending", "none"),
             durations)
    /\ script' = IF script = "puts" /\ AllIdle THEN "dispose" ELSE "other"
    /\ UNCHANGED <<fn, setup, durations, max_length>>

\* The durations track_request is called with: None (which `duration or 0`
\* turns into 0) and a negative one.
Durations == {Absent, Some(-1)}

\* client.track_request(..., duration=d): the envelope is built with
\* `duration or 0`, whatever its sign, and pushed.
TrackRequestDuration(t, d) ==
    /\ pc[t] = "idle"
    /\ NoneDone
    /\ nextId <= MaxEnvelopes
    /\ LET env == track_request(
                      [id |-> Some("req-1"), name |-> "/",
                       http_method |-> Some("GET"), response_code |-> Some(200),
                       success |-> TRUE, duration |-> d, operation |-> Absent,
                       user |-> Absent], "uuid-a")
           ds == (nextId :> env.data.duration) @@ durations
       IN  /\ Begin(t, push(t, nextId), ds)
           /\ durations' = ds
    /\ script' = "other"
    /\ UNCHANGED <<fn, setup, max_length>>

\* The send a task is suspended in ends: with "ok" (status 200) or by raising.
SendDone(t, r) ==
    /\ pc[t] = "sending"
    /\ NoneDone
    /\ LET e == SendEnded(t, Shared, [call[t] EXCEPT !.sres = r], r)
       IN  /\ Install(t, e.m)
           /\ closed' = e.closed
           /\ http' = e.http
           /\ hook' = e.hook
    /\ UNCHANGED <<fn, setup, durations, max_length, script>>

\* The application is cleaned up: aiohttp runs the teardown hook.
Cleanup(t) ==
    /\ pc[t] = "idle"
    /\ NoneDone
    /\ nextId <= MaxEnvelopes
    /\ closed < MaxFlushCalls
    /\ Install(t, on_clean_up_dispose_ai_client(t, Shared))
    /\ script' = "other"
    /\ UNCHANGED <<fn, setup, durations, hook, http, max_length, closed>>

\* client.handle_unhandled_exceptions(): sys.excepthook becomes
\* local_excepthook, which keeps the hook it replaces.
HandleUnhandledExceptions ==
    /\ ~hook.installed
    /\ hook' = [hook EXCEPT !.installed = TRUE]
    /\ UNCHANGED <<fn, setup, durations, http, max_length, queue, nextId, sends, closed,
                   pc, call, result, script>>

\* An exception reaches sys.excepthook while the client's hook is installed.
Excepthook(t) ==
    /\ hook.installed
    /\ hook.runs < MaxHookRuns
    /\ pc[t] = "idle"
    /\ NoneDone
    /\ \A u \in Tasks : call[u].op # "excepthook"
    /\ nextId <= MaxEnvelopes
    /\ Install(t, local_excepthook(t, Shared))
    /\ hook' = [hook EXCEPT !.runs = @ + 1]
    /\ script' = "other"
    /\ UNCHANGED <<fn, setup, durations, http, max_length, closed>>

\* The finished call returns (or raises) to its caller.
Return(t) ==
    /\ pc[t] = "done"
    /\ pc' = [pc EXCEPT ![t] = "idle"]
    /\ call' = [call EXCEPT ![t] = NoCall]
    /\ result' = [result EXCEPT ![t] = "none"]
    /\ UNCHANGED <<fn, setup, durations, hook, http, max_length, queue, nextId, sends, closed, script>>

\* channel.dispose(), called directly on the channel.
ChannelDispose(t) ==
    /\ pc[t] = "idle"
    /\ NoneDone
    /\ closed < MaxFlushCalls
    /\ LET cd == channel_dispose(Shared, http) IN
       /\ Install(t, Step(cd.sh, [NoCall EXCEPT !.op = "channel_dispose",
                                                !.released = TRUE],
                          "done", "ok"))
       /\ http' = cd.http
    /\ closed' = closed + 1
    /\ script' = "other"
    /\ UNCHANGED <<fn, setup, durations, hook, max_length>>

\* The owner of the channel assigns another threshold to _max_length, between
\* two calls.
Configure(ml) ==
    /\ AllIdle
    /\ ml # max_length
    /\ max_length' = ml
    /\ script' = "other"
    /\ UNCHANGED <<fn, setup, durations, hook, http, queue, nextId, sends, closed, pc, call, result>>

Next ==
    \/ \E t \in Tasks, item \in 0..MaxEnvelopes : Push(t, item)
    \/ \E t \in Tasks : Flush(t)
    \/ \E t \in Tasks : Dispose(t)
    \/ \E t \in Tasks, f \in BOOLEAN : Middleware(t, f)
    \/ \E t \in Tasks, o \in Outcomes : HandlerDone(t, o)
    \/ \E t \in Tasks, r \in {"ok"} \cup Errors : SendDone(t, r)
    \/ \E t \in Tasks : Return(t)

Spec == Init /\ [][Next]_vars

\* The hooks of the client: the teardown hook use_application_insights
\* registers and the process-wide excepthook, next to puts and disposes.
NextHook ==
    \/ \E t \in Tasks, item \in 0..MaxEnvelopes : Push(t, item)
    \/ \E t \in Tasks : Dispose(t)
    \/ \E t \in Tasks : Cleanup(t)
    \/ HandleUnhandledExceptions
    \/ \E t \in Tasks : Excepthook(t)
    \/ \E t \in Tasks, r \in {"ok"} \cup Errors : SendDone(t, r)
    \/ \E t \in Tasks : Return(t)

SpecHook == Init /\ [][NextHook]_vars

\* A transport that hangs for one task: the sends of task Hung never end
\* (send has no timeout), those of every other task end, and the event loop
\* runs every task that can run.  The loop's ready queue is first in, first
\* out: a send that has ended is resumed however often other tasks start and
\* finish calls in between, which is strong fairness.
Hung == CHOOSE t \in Tasks : \A u \in Tasks : t <= u

NextLive ==
    \/ \E t \in Tasks, item \in 0..MaxEnvelopes : Push(t, item)
    \/ \E t \in Tasks : Flush(t)
    \/ \E t \in Tasks \ {Hung}, r \in {"ok"} \cup Errors : SendDone(t, r)
    \/ \E t \in Tasks : Return(t)

SpecLive ==
    /\ Init
    /\ [][NextLive]_vars
    /\ \A t \in Tasks \ {Hung} :
          SF_vars(\E r \in {"ok"} \cup Errors : SendDone(t, r))
    /\ \A t \in Tasks : WF_vars(Return(t))

\* Requests tracked with a duration, next to direct flushes and disposes.
NextSer ==
    \/ \E t \in Tasks, d \in Durations : TrackRequestDuration(t, d)
    \/ \E t \in Tasks : Flush(t)
    \/ \E t \in Tasks : Dispose(t)
    \/ \E t \in Tasks, r \in {"ok"} \cup Errors : SendDone(t, r)
    \/ \E t \in Tasks : Return(t)

SpecSer == Init /\ [][NextSer]_vars

\* The middleware on its own, for every way of setting it up: with or without
\* a user_getter, with the default classifier or another one, and for the
\* statuses a response or an HTTPException may carry.
Setups ==
    [user_getter : BOOLEAN,
     is_success_request : {"default", "always", "never"},
     status : {200, 302, 400, 404, 500}]

InitMw ==
    /\ max_length \in 1..MaxThreshold
    /\ queue = <<>>
    /\ nextId = 1
    /\ sends = <<>>
    /\ closed = 0
    /\ pc = [t \in Tasks |-> "idle"]
    /\ call = [t \in Tasks |-> NoCall]
    /\ result = [t \in Tasks |-> "none"]
    /\ script = "other"
    /\ http = [dispose_client |-> TRUE, closed |-> FALSE]
    /\ fn = NoFn
    /\ setup \in Setups
    /\ hook = NoHook
    /\ durations = <<>>

NextMw ==
    \/ \E t \in Tasks, f \in BOOLEAN : Middleware(t, f)
    \/ \E t \in Tasks, o \in Outcomes : HandlerDone(t, o)
    \/ \E t \in Tasks, r \in {"ok"} \cup Errors : SendDone(t, r)
    \/ \E t \in Tasks : Return(t)

SpecMw == InitMw /\ [][NextMw]_vars

\* The channel on its own: built with or without a session of the caller's
\* (AiohttpTelemetryChannel(http_client=...)), its threshold reassigned at
\* will, its dispose called directly as well as through the client.
InitChan ==
    /\ max_length \in 1..MaxThreshold
    /\ queue = <<>>
    /\ nextId = 1
    /\ sends = <<>>
    /\ closed = 0
    /\ pc = [t \in Tasks |-> "idle"]
    /\ call = [t \in Tasks |-> NoCall]
    /\ result = [t \in Tasks |-> "none"]
    /\ script = "other"
    /\ http \in [dispose_client : BOOLEAN, closed : {FALSE}]
    /\ fn = NoFn
    /\ setup = DefaultSetup
    /\ hook = NoHook
    /\ durations = <<>>

NextChan ==
    \/ \E t \in Tasks, item \in 0..MaxEnvelopes : Push(t, item)
    \/ \E t \in Tasks : Flush(t)
    \/ \E t \in Tasks : Dispose(t)
    \/ \E t \in Tasks : ChannelDispose(t)
    \/ \E ml \in 1..MaxThreshold : Configure(ml)
    \/ \E t \in Tasks, r \in {"ok"} \cup Errors : SendDone(t, r)
    \/ \E t \in Tasks : Return(t)

SpecChan == InitChan /\ [][NextChan]_vars

\* ---- the specification of the pure functions

FnInputs ==
    ClientInitInputs \cup GetTagsInputs \cup TrackRequestInputs \cup
    TrackExceptionInputs \cup IsSuccessInputs \cup FormatDurationInputs

InitFn ==
    /\ max_length \in 1..MaxThreshold
    /\ queue = <<>>
    /\ nextId = 1
    /\ sends = <<>>
    /\ closed = 0
    /\ pc = [t \in Tasks |-> "idle"]
    /\ call = [t \in Tasks |-> NoCall]
    /\ result = [t \in Tasks |-> "none"]
    /\ script = "other"
    /\ http = [dispose_client |-> TRUE, closed |-> FALSE]
    /\ fn \in FnInputs
    /\ setup = DefaultSetup
    /\ hook = NoHook
    /\ durations = <<>>

NextFn ==
    \/ ClientInit
    \/ GetTags
    \/ \E t \in Tasks : TrackRequest(t)
    \/ \E t \in Tasks : TrackException(t)
    \/ IsSuccess
    \/ FormatDuration
    \/ \E t \in Tasks, r \in {"ok"} \cup Errors : SendDone(t, r)
    \/ \E t \in Tasks : Return(t)

SpecFn == InitFn /\ [][NextFn]_vars

\* ---------------------------------------------------------------- claims

Range(seq) == {seq[k] : k \in 1..Len(seq)}

RECURSIVE Concat(_)
Concat(ss) == IF ss = <<>> THEN <<>> ELSE Head(ss).data \o Concat(Tail(ss))

CeilDiv(n, d) == (n + d - 1) \div d

\* The envelopes put has accepted so far.
Accepted == 1..(nextId - 1)

Done(t, op) == pc[t] = "done" /\ call[t].op = op

\* The instrumented (non-filtered) middleware run of task t has ended.
MwDone(t) == Done(t, "middleware") /\ ~call[t].filtered

\* C1: N envelopes pushed one after another on a fresh channel, then the
\* client's dispose: exactly ceil(N/T) sends, each of at most T envelopes,
\* whose concatenation is the push order.
C1_FlushCardinality ==
    \A t \in Tasks :
        (script = "dispose" /\ Done(t, "dispose")) =>
            /\ Len(sends) = CeilDiv(nextId - 1, max_length)
            /\ \A i \in 1..Len(sends) : Len(sends[i].data) <= max_length
            /\ Concat(sends) = [k \in 1..(nextId - 1) |-> k]

\* C2: a flush (called directly or by the client's dispose) that starts on an
\* empty queue invokes no send and leaves the queue as it is.
C2_FlushEmptyIsNoOp ==
    [][\A t \in Tasks :
          (pc[t] = "idle" /\ call'[t].op \in {"flush", "dispose"} /\ queue = <<>>)
              => (sends' = sends /\ queue' = queue)]_vars

\* C3: when no track call raises, the middleware hands its caller the
\* handler's own outcome in each of the three branches: the response it
\* returned, the HTTPException or the other exception it raised.
C3_WrapperTransparent ==
    \A t \in Tasks :
        (MwDone(t) /\ ~call[t].tfail
            /\ call[t].outcome \in {"response", "HTTPException", "Exception"})
            => result[t] = call[t].outcome

C3_Witness ==
    \E t \in Tasks :
        /\ MwDone(t) /\ ~call[t].tfail
        /\ call[t].outcome = "Exception" /\ call[t].stage = "exc_exception"
        /\ call[t].nreq = 1 /\ call[t].nexc = 1
        /\ result[t] = "Exception"

\* C4: an instrumented middleware run whose handler returned a response or
\* raised an exception invokes track_request exactly once and track_exception
\* at most once, the latter only when the handler raised an error that is not
\* an HTTPException.
C4_OneRequestRecord ==
    \A t \in Tasks :
        (call[t].op = "middleware" /\ ~call[t].filtered
            /\ call[t].outcome \in {"response", "HTTPException", "Exception"})
            => /\ call[t].nreq <= 1
               /\ call[t].nexc <= 1
               /\ (call[t].nexc = 1 => call[t].outcome = "Exception")
               /\ (pc[t] = "done" => call[t].nreq = 1)

\* C5: when a track call raises inside the middleware, the caller still
\* observes the handler's own outcome.
C5_TelemetryErrorIsolated ==
    \A t \in Tasks :
        (MwDone(t) /\ call[t].tfail) => result[t] = call[t].outcome

\* C6: every envelope is handed to send at most once, and an envelope that
\* was handed to send (whether that send succeeds, fails or is in flight) is
\* never in the queue again.
C6_AtMostOnce ==
    \A e \in Accepted :
        LET places == {p \in (1..Len(sends)) \X (1..(nextId - 1)) :
                          /\ p[2] <= Len(sends[p[1]].data)
                          /\ sends[p[1]].data[p[2]] = e}
        IN  /\ Cardinality(places) <= 1
            /\ (places # {} => e \notin Range(queue))
            /\ Cardinality({k \in 1..Len(queue) : queue[k] = e}) <= 1

\* A send has failed for a non-empty batch while a later batch was handed to
\* send and another envelope is queued.
C6_Witness ==
    \E t \in Tasks :
        /\ pc[t] = "done" /\ call[t].sres = "OperationFailed"
        /\ sends[call[t].sidx].data # <<>>
        /\ call[t].sidx < Len(sends)
        /\ sends[Len(sends)].data # <<>>

\* C7: the error of a send comes unchanged out of the flush that invoked it
\* and out of the put that triggered that flush; a put that triggers no flush
\* returns normally.
C7_SendFailurePropagates ==
    \A t \in Tasks :
        (pc[t] = "done" /\ call[t].op \in {"put", "flush"})
            => /\ (call[t].sidx # 0 => result[t] = call[t].sres)
               /\ (call[t].sidx = 0 => result[t] = "ok")
               /\ (call[t].op = "flush" => call[t].sidx # 0)

C7_Witness ==
    \E t \in Tasks :
        /\ Done(t, "put") /\ call[t].sidx # 0
        /\ call[t].sres = "OperationFailed" /\ result[t] = "OperationFailed"

\* C8: the client's dispose flushes first and runs the channel's dispose
\* afterwards, also when the flush raised, and then the flush's error is what
\* the caller of dispose receives.
C8_DisposeOrder ==
    \A t \in Tasks :
        call[t].op = "dispose"
            => /\ call[t].sidx \in 1..Len(sends)
               /\ sends[call[t].sidx].from = "dispose"
               /\ (pc[t] = "sending" => ~call[t].released)
               /\ (pc[t] = "done" =>
                      /\ call[t].released
                      /\ closed >= 1
                      /\ result[t] = call[t].sres)

C8_Witness ==
    \E t \in Tasks :
        /\ Done(t, "dispose") /\ call[t].sres = "OperationFailed"
        /\ call[t].released /\ closed = 1
        /\ result[t] = "OperationFailed"

\* C9: a put invokes send exactly when the queue length right after its
\* append has reached the threshold; otherwise the envelope stays queued, and
\* an envelope leaves the queue only in the batch of a put that reached the
\* threshold or of an explicit flush or dispose.
C9_PutSends ==
    \A t \in Tasks :
        (call[t].op = "put" /\ Truthy(call[t].item))
            => /\ (call[t].sidx # 0 <=> max_length <= call[t].qlen)
               /\ (call[t].sidx # 0 =>
                      /\ sends[call[t].sidx].from = "put"
                      /\ call[t].item \in Range(sends[call[t].sidx].data))
               /\ (call[t].sidx = 0 =>
                      pc[t] = "done" /\ call[t].item \in Range(queue))

C9_Leaves ==
    \A e \in Range(queue) :
        e \notin Range(queue')
            => /\ Len(sends') = Len(sends) + 1
               /\ e \in Range(sends'[Len(sends')].data)
               /\ (sends'[Len(sends')].from = "put"
                      => max_length <= Len(sends'[Len(sends')].data))

C9_SizeTriggered == []C9_PutSends /\ [][C9_Leaves]_vars

\* Threshold 2: two envelopes went out in one send, the third is buffered.
C9_Witness ==
    /\ max_length = 2
    /\ Len(sends) = 1 /\ sends[1].data = <<1, 2>> /\ sends[1].from = "put"
    /\ queue = <<3>>
    /\ \E t \in Tasks : Done(t, "put") /\ call[t].item = 3 /\ call[t].sidx = 0

\* C10: each flush takes as its batch exactly what the queue holds when it
\* starts (with the envelopes its own task has just appended) and leaves the
\* queue empty; a batch handed to send never changes afterwards, so what is
\* appended during a send belongs to a later batch; batches are disjoint.
C10_Drain ==
    /\ Len(sends') \in {Len(sends), Len(sends) + 1}
    /\ \A i \in 1..Len(sends) : sends'[i] = sends[i]
    /\ LET fresh == [k \in 1..(nextId' - nextId) |-> nextId + k - 1] IN
       IF Len(sends') = Len(sends) + 1
       THEN /\ sends'[Len(sends')].data = queue \o fresh
            /\ queue' = <<>>
       ELSE queue' = queue \o fresh

C10_Disjoint ==
    \A i, j \in 1..Len(sends) :
        i # j => Range(sends[i].data) \cap Range(sends[j].data) = {}

C10_AtomicDrain == []C10_Disjoint /\ [][C10_Drain]_vars

\* A send is in flight on a non-empty batch and an envelope appended since
\* is in the queue, outside that batch.
C10_Witness ==
    \E t \in Tasks :
        /\ pc[t] = "sending"
        /\ sends[call[t].sidx].data # <<>>
        /\ queue # <<>>
        /\ Range(queue) \cap Range(sends[call[t].sidx].data) = {}

\* C11: inside every batch handed to send the envelopes are in the order of
\* their appends, and the batches follow one another in that order too: read
\* one after another, the batches list the envelopes by rising append number,
\* whatever the interleaving of the puts.
C11_Fifo ==
    LET all == Concat(sends) IN
    \A i, j \in 1..Len(all) : i < j => all[i] < all[j]

\* A batch of two envelopes went out, a later non-empty batch followed it,
\* and the two sends were invoked by different tasks running concurrently.
C11_Witness ==
    \E i, j \in 1..Len(sends) :
        /\ i < j
        /\ Len(sends[i].data) >= 2
        /\ sends[j].data # <<>>
        /\ \E t, u \in Tasks :
              /\ t # u
              /\ pc[t] = "sending" /\ call[t].sidx = i
              /\ pc[u] = "sending" /\ call[u].sidx = j

\* The envelope e is in exactly one place of the batches handed to send.
SentOnce(e) ==
    Cardinality({p \in (1..Len(sends)) \X (1..(nextId - 1)) :
                    /\ p[2] <= Len(sends[p[1]].data)
                    /\ sends[p[1]].data[p[2]] = e}) = 1

\* The client dispose of task t has ended (returning or raising) while no
\* other task is in a call and none has put anything since it started.
DisposedQuiet(t) ==
    /\ Done(t, "dispose")
    /\ \A u \in Tasks \ {t} : pc[u] = "idle"
    /\ nextId = call[t].nid0

C13_FalsyPutIsNoOp ==
    [][\A t \in Tasks :
          (pc[t] = "idle" /\ call'[t].op = "put" /\ ~Truthy(call'[t].item))
              => /\ queue' = queue
                 /\ sends' = sends
                 /\ pc'[t] = "done"
                 /\ result'[t] = "ok"]_vars

\* A falsy put has just returned while the queue holds at least as many
\* envelopes as the threshold.
C13_Witness ==
    \E t \in Tasks :
        /\ Done(t, "put") /\ ~Truthy(call[t].item)
        /\ queue # <<>> /\ max_length <= Len(queue)
        /\ result[t] = "ok"

\* Task t's step runs the channel's dispose: called directly, or in the
\* finally clause of the client's dispose.
RunsChannelDispose(t) ==
    \/ pc[t] = "idle" /\ call'[t].op = "channel_dispose"
    \/ pc[t] = "sending" /\ call[t].op = "dispose" /\ pc'[t] = "done"

\* C14: the channel's dispose leaves the queue and the sends as they are
\* (what is queued stays queued and unsent) and closes the session exactly
\* when the channel created it; a session supplied by the caller stays as it
\* was.
C14_ChannelDisposeOnlyReleases ==
    [][\A t \in Tasks :
          RunsChannelDispose(t)
              => /\ queue' = queue
                 /\ sends' = sends
                 /\ http'.dispose_client = http.dispose_client
                 /\ http'.closed = (http.closed \/ http.dispose_client)]_vars

\* The channel's dispose has run on a channel that was given its session:
\* envelopes are still queued and the session is open.
C14_Witness ==
    \E t \in Tasks :
        /\ Done(t, "channel_dispose")
        /\ queue # <<>>
        /\ ~http.dispose_client /\ ~http.closed

Evaluated(name) == fn.name = name /\ fn.done

\* A key that is missing, empty, or made of whitespace only.
Blank(value) ==
    \/ value.kind = "none"
    \/ \A k \in 1..Len(value.chars) : value.chars[k] \in Whitespace

\* C15: constructing the client raises ArgumentNullException, and yields no
\* client, exactly when the instrumentation key is missing, empty or
\* whitespace-only or the channel is missing; otherwise the client exists.
C15_ConstructionFailsFast ==
    Evaluated("client_init") =>
        LET bad == Blank(fn.arg.instrumentation_key) \/ fn.arg.channel.kind = "none" IN
        /\ bad => (fn.out.raised = "ArgumentNullException" /\ ~fn.out.client)
        /\ ~bad => (fn.out.raised = "none" /\ fn.out.client)

\* A key of two whitespace characters, with a channel: no client.
C15_Witness ==
    /\ Evaluated("client_init")
    /\ fn.arg.instrumentation_key = PyStr(<<" ", "\t">>)
    /\ fn.arg.channel = PyObject
    /\ fn.out.raised = "ArgumentNullException" /\ ~fn.out.client

\* The tag groups of a get_tags call, in the order of the claim; an absent
\* group contributes nothing.
TagGroups(arg) ==
    <<LoggingDevice_to_dict,
      IF arg.application.present THEN Application_to_dict(arg.application) ELSE EmptyDict,
      IF arg.operation.present THEN Operation_to_dict(arg.operation) ELSE EmptyDict,
      IF arg.user.present THEN User_to_dict(arg.user) ELSE EmptyDict,
      IF arg.session.present THEN Session_to_dict(arg.session) ELSE EmptyDict,
      COMMON_TAGS>>

\* The last group that has key k.
LastWith(groups, k) ==
    CHOOSE i \in 1..Len(groups) :
        /\ k \in DOMAIN groups[i]
        /\ \A j \in (i + 1)..Len(groups) : k \notin DOMAIN groups[j]

\* C16: get_tags holds every key of every group, each with the value of the
\* last group (device, application, operation, user, session, SDK identity)
\* that has it: a Session's id replaces the user's session id, and the SDK
\* identity tag is always there with its fixed value.
C16_TagMerge ==
    Evaluated("get_tags") =>
        LET groups == TagGroups(fn.arg) IN
        /\ DOMAIN fn.out = UNION {DOMAIN groups[i] : i \in 1..Len(groups)}
        /\ \A k \in DOMAIN fn.out : fn.out[k] = groups[LastWith(groups, k)][k]
        /\ fn.arg.session.present => fn.out["ai.session.id"] = fn.arg.session.id
        /\ fn.out["ai.internal.sdkVersion"] = "asynpy3:0.0.1"

\* A user with a session id of its own and an explicit Session: the tag is
\* the Session's.
C16_Witness ==
    /\ Evaluated("get_tags")
    /\ fn.arg.user.present /\ fn.arg.user.session_id = "s-user"
    /\ fn.arg.user.account_id = "acc"
    /\ fn.arg.session.present /\ fn.arg.session.id = "s-explicit"
    /\ fn.out["ai.session.id"] = "s-explicit"
    /\ fn.out["ai.user.accountId"] = "acc"

\* C17: the request id is the supplied id, or a generated one when none is
\* supplied; with no Operation given the envelope's ai.operation.id is that
\* request id and its ai.operation.name is "{method} {name}"; a given
\* Operation's id and name are used as they are.
C17_RequestOperation ==
    (Evaluated("track_request") /\ fn.out.raised = "none") =>
        LET a == fn.arg
            tags == fn.out.tags
            supplied == a.id.present /\ a.id.v # ""
        IN  /\ supplied => fn.out.data.id = a.id.v
            /\ ~supplied => fn.out.data.id \in Uuids
            /\ ~a.operation.present =>
                  /\ tags["ai.operation.id"] = fn.out.data.id
                  /\ tags["ai.operation.name"]
                        = <<IF a.http_method.present THEN a.http_method.v ELSE "None",
                            " ", a.name>>
            /\ a.operation.present =>
                  /\ tags["ai.operation.id"] = a.operation.id
                  /\ tags["ai.operation.name"] = a.operation.name

\* No id and no Operation were given: the envelope in the queue carries a
\* generated id as its request id and as its operation id.
C17_Witness ==
    /\ Evaluated("track_request") /\ fn.out.raised = "none"
    /\ ~fn.arg.id.present /\ ~fn.arg.operation.present
    /\ fn.arg.http_method = Some("POST") /\ fn.arg.name = "/items"
    /\ fn.out.data.id = "uuid-b"
    /\ fn.out.tags["ai.operation.id"] = "uuid-b"
    /\ fn.out.tags["ai.operation.name"] = <<"POST", " ", "/items">>
    /\ queue = <<1>>

\* C18: the exception envelope track_exception pushes has a non-empty stack,
\* whether the triple was given in full, taken from the exception being
\* handled, or made up, and for every skip_frames.
C18_NonEmptyStack ==
    Evaluated("track_exception") => fn.out.stack # <<>>

\* C19: the default classifier answers success exactly for a status below 400
\* and for 401, 403, 404 and 405.
C19_DefaultClassifier ==
    Evaluated("default_is_success_request") =>
        /\ fn.out <=> (fn.arg < 400 \/ fn.arg \in {401, 403, 404, 405})
        /\ fn.arg \in {200, 399, 404} => fn.out
        /\ fn.arg \in {400, 500} => ~fn.out

\* 404 was classified, as a success.
C19_Witness ==
    Evaluated("default_is_success_request") /\ fn.arg = 404 /\ fn.out

\* n < 100 (n < 1000) in two (three) digits.
TwoDigits(n) == <<DigitChars[(n \div 10) + 1], DigitChars[(n % 10) + 1]>>
ThreeDigits(n) == <<DigitChars[(n \div 100) + 1]>> \o TwoDigits(n % 100)

\* C20: for 0 <= ms < 86,400,000 format_duration gives hh:mm:ss.fff, zero
\* padded, with hh = ms div 3,600,000, mm = (ms div 60,000) mod 60,
\* ss = (ms div 1000) mod 60 and fff = ms mod 1000; for a negative ms it
\* raises instead of returning a string.
C20_FormatDuration ==
    (Evaluated("format_duration") /\ fn.arg.present) =>
        LET ms == fn.arg.v IN
        /\ (0 <= ms /\ ms < 86400000) =>
              /\ fn.out.raised = "none"
              /\ fn.out.s = TwoDigits(ms \div 3600000) \o <<":">> \o
                            TwoDigits((ms \div 60000) % 60) \o <<":">> \o
                            TwoDigits((ms \div 1000) % 60) \o <<".">> \o
                            ThreeDigits(ms % 1000)
        /\ ms = 16150 =>
              fn.out.s = <<"0", "0", ":", "0", "0", ":", "1", "6", ".", "1", "5", "0">>
        /\ ms = 255 =>
              fn.out.s = <<"0", "0", ":", "0", "0", ":", "0", "0", ".", "2", "5", "5">>
        /\ ms = 5 =>
              fn.out.s = <<"0", "0", ":", "0", "0", ":", "0", "0", ".", "0", "0", "5">>
        /\ ms < 0 => fn.out.raised = "ValueError"

\* 23 h 59 min 16 s 5 ms was formatted.
C20_Witness ==
    /\ Evaluated("format_duration") /\ fn.arg.present
    /\ fn.arg.v = 86356005
    /\ fn.out.s = <<"2", "3", ":", "5", "9", ":", "1", "6", ".", "0", "0", "5">>

\* The string starts with a "<days>." prefix: its first "." comes before its
\* first ":".
HasDayPrefix(str) ==
    \E i \in 1..Len(str) :
        /\ str[i] = "."
        /\ \A j \in 1..(i - 1) : str[j] \notin {".", ":"}

\* hh:mm:ss.fff of the part of ms that is left after its whole days.
ClockOf(ms) ==
    TwoDigits((ms \div 3600000) % 24) \o <<":">> \o
    TwoDigits((ms \div 60000) % 60) \o <<":">> \o
    TwoDigits((ms \div 1000) % 60) \o <<".">> \o
    ThreeDigits(ms % 1000)

\* The days of ms (fewer than 100) in decimal.
DaysOf(ms) ==
    LET days == ms \div 86400000 IN
    IF days < 10 THEN <<DigitChars[days + 1]>> ELSE TwoDigits(days)

\* C21 as stated: the "<days>." prefix is rendered if and only if
\* ms > 86,400,000, and a duration of at most 24 hours is hh:mm:ss.fff with
\* no prefix.
C21_DayPrefixOver24h ==
    (Evaluated("format_duration") /\ fn.arg.present /\ fn.arg.v >= 0) =>
        (HasDayPrefix(fn.out.s) <=> fn.arg.v > 86400000)

\* C21, amended: the "<days>." prefix is rendered if and only if
\* ms >= 86,400,000 (24 hours or more); below that the string is
\* hh:mm:ss.fff with no prefix, and with a prefix the days are
\* ms div 86,400,000 and hh the remaining hours (< 24).
C21_DayPrefixFromOneDay ==
    (Evaluated("format_duration") /\ fn.arg.present /\ fn.arg.v >= 0) =>
        LET ms == fn.arg.v IN
        /\ HasDayPrefix(fn.out.s) <=> ms >= 86400000
        /\ ms < 86400000 => fn.out.s = ClockOf(ms)
        /\ ms >= 86400000 => fn.out.s = DaysOf(ms) \o <<".">> \o ClockOf(ms)

\* Exactly 24 hours was formatted: one day and a clock of zeros.
C21_Witness ==
    /\ Evaluated("format_duration") /\ fn.arg.present
    /\ fn.arg.v = 86400000
    /\ fn.out.s = <<"1", ".", "0", "0", ":", "0", "0", ":", "0", "0", ".",
                    "0", "0", "0">>

\* Task t is in a middleware run that the request filter matched.
Filtered(t) == call[t].op = "middleware" /\ call[t].filtered

\* Task t is in an instrumented middleware run.
Instrumented(t) == call[t].op = "middleware" /\ ~call[t].filtered

\* How often the event e is in the trace tr.
Count(tr, e) == Cardinality({i \in 1..Len(tr) : tr[i] = e})

C22_NothingCalled ==
    \A t \in Tasks :
        Filtered(t) =>
            /\ Count(call[t].trace, "handler") = 1
            /\ Range(call[t].trace) \subseteq {"handler", "handler_done"}
            /\ call[t].emitted = <<>>
            /\ call[t].nreq = 0 /\ call[t].nexc = 0
            /\ call[t].tid = ""
            /\ (pc[t] = "done" => result[t] = call[t].outcome)

C22_ChannelUntouched ==
    \A t \in Tasks :
        (call'[t].op = "middleware" /\ call'[t].filtered
            /\ (call'[t] # call[t] \/ pc'[t] # pc[t]) /\ pc'[t] # "idle")
            => UNCHANGED <<queue, sends, nextId, closed, http>>

\* C22: for a request the filter matches the middleware only calls the
\* handler, once, and hands on what it returned or raised: no track call, no
\* clock, no user resolver, no correlation id on the request, and the channel
\* is left as it was.
C22_FilteredPassThrough == []C22_NothingCalled /\ [][C22_ChannelUntouched]_vars

\* A filtered request whose handler raised has ended while an envelope of an
\* earlier request is queued: the error is handed on.
C22_Witness ==
    \E t \in Tasks :
        /\ Filtered(t) /\ pc[t] = "done"
        /\ call[t].outcome = "Exception" /\ result[t] = "Exception"
        /\ queue # <<>>

\* What the classifier of the setup answers for a status.
Classified(status) ==
    \/ setup.is_success_request = "always"
    \/ /\ setup.is_success_request = "default"
       /\ (status < 400 \/ status \in {401, 403, 404, 405})

\* C25: the request record carries the response's status and the
\* classifier's answer for it in branch 1, the HTTPException's status and the
\* classifier's answer in branch 2 (and no exception is tracked for an
\* HTTPException), and 500 with success = false in branch 3 whatever the
\* classifier answers; there track_exception follows track_request, with
\* skip_frames = 1, and the error is raised again after both.
C25_RequestRecord ==
    \A t \in Tasks :
        Instrumented(t) =>
            LET c == call[t] IN
            /\ \A i \in 1..Len(c.emitted) :
                  LET e == c.emitted[i] IN
                  /\ e.stage \in {"try", "http"} =>
                        /\ e.kind = "request"
                        /\ e.status = setup.status
                        /\ e.success = Classified(setup.status)
                  /\ e.stage = "exc_request" =>
                        /\ e.kind = "request"
                        /\ e.status = 500
                        /\ e.success = FALSE
                  /\ e.kind = "exception" =>
                        /\ e.skip_frames = 1
                        /\ i > 1
                        /\ c.emitted[i - 1].stage = "exc_request"
            /\ c.outcome = "HTTPException" => c.nexc = 0
            /\ (pc[t] = "done" /\ ~c.tfail /\ c.outcome = "Exception") =>
                  /\ Len(c.emitted) = 2
                  /\ c.emitted[1].kind = "request"
                  /\ c.emitted[2].kind = "exception"
                  /\ SubSeq(c.trace, Len(c.trace) - 1, Len(c.trace))
                        = <<"track_request", "track_exception">>
                  /\ result[t] = "Exception"

\* The handler raised while the classifier answers success for everything:
\* the request record says 500 and failure, the exception record follows.
C25_Witness ==
    \E t \in Tasks :
        /\ Instrumented(t) /\ pc[t] = "done" /\ ~call[t].tfail
        /\ setup.is_success_request = "always"
        /\ call[t].outcome = "Exception"
        /\ Len(call[t].emitted) = 2
        /\ call[t].emitted[1].status = 500 /\ ~call[t].emitted[1].success
        /\ call[t].emitted[2].kind = "exception"
        /\ result[t] = "Exception"

\* C26: with a user resolver configured, the resolver is only called once
\* the handler has returned or raised; every track_request comes after a
\* call of the resolver, and the user it gave is on the request record and on
\* the exception record.
C26_ResolverAfterHandler ==
    \A t \in Tasks :
        (Instrumented(t) /\ setup.user_getter) =>
            LET tr == call[t].trace IN
            /\ \A i \in 1..Len(tr) :
                  /\ tr[i] = "user_getter" =>
                        \E j \in 1..(i - 1) : tr[j] = "handler_done"
                  /\ tr[i] = "track_request" =>
                        \E j \in 1..(i - 1) :
                            /\ tr[j] = "user_getter"
                            /\ \A k \in (j + 1)..(i - 1) :
                                  tr[k] \notin {"handler", "track_request"}
            /\ \A i \in 1..Len(call[t].emitted) :
                  call[t].emitted[i].user_id = "uid"

\* The handler raised, the user was resolved afterwards, and both records
\* carry that user.
C26_Witness ==
    \E t \in Tasks :
        /\ Instrumented(t) /\ setup.user_getter /\ pc[t] = "done"
        /\ call[t].trace = <<"time_getter", "telemetry_id", "handler",
                             "handler_done", "user_getter", "track_request",
                             "track_exception">>
        /\ Len(call[t].emitted) = 2
        /\ call[t].emitted[1].user_id = "uid"
        /\ call[t].emitted[2].user_id = "uid"

\* C28: the middleware generates one correlation id per instrumented
\* request and attaches it before the handler runs; the request record's id
\* and ai.operation.id are that id, and so is the ai.operation.id of the
\* exception envelope of branch 3.
C28_OneCorrelationId ==
    \A t \in Tasks :
        Instrumented(t) =>
            LET c == call[t] IN
            /\ c.tid # ""
            /\ Count(c.trace, "telemetry_id") = 1
            /\ \E i, j \in 1..Len(c.trace) :
                  i < j /\ c.trace[i] = "telemetry_id" /\ c.trace[j] = "handler"
            /\ \A i \in 1..Len(c.emitted) :
                  /\ c.emitted[i].operation_id = c.tid
                  /\ c.emitted[i].kind = "request" => c.emitted[i].id = c.tid

\* C23: a run of the teardown hook pushes one stop event, that event is
\* handed to send before the transport is released, and when the hook ends,
\* normally or with an error, the client has been disposed.
C23_TeardownDisposes ==
    \A t \in Tasks :
        call[t].op = "cleanup" =>
            /\ call[t].item \in Accepted
            /\ call[t].released =>
                  \E i \in 1..Len(sends) : call[t].item \in Range(sends[i].data)
            /\ pc[t] = "done" => (call[t].released /\ http.closed)

\* C24: when a run of the installed excepthook ends, the exception envelope
\* has been handed to send, the flush has run, and the hook installed before
\* has been called exactly once, after both; dispose leaves the hook
\* installed.
C24_PreviousHookCalled ==
    /\ \A t \in Tasks :
          call[t].op = "excepthook" =>
              /\ call[t].previous <= 1
              /\ call[t].previous = 1 =>
                    /\ pc[t] = "done" /\ call[t].stage = "flush"
                    /\ \E i \in 1..Len(sends) :
                          call[t].item \in Range(sends[i].data)
              /\ pc[t] = "done" => call[t].previous = 1
    /\ hook.runs > 0 => hook.installed

\* The length of the traceback track_exception works on, and how many of its
\* entries a skip count leaves.
TbLen(a) ==
    IF a.type /\ a.value /\ a.frames > 0 THEN a.frames
    ELSE IF a.ambient > 0 THEN a.ambient ELSE 1
Kept(n, skip_frames) ==
    IF ~skip_frames.present \/ skip_frames.v = 0 THEN n
    ELSE IF skip_frames.v < 0 \/ skip_frames.v >= n THEN 0
    ELSE n - skip_frames.v

C30_QueueBelowThreshold ==
    /\ Len(queue) <= max_length - 1
    /\ \A i \in 1..Len(queue) : Truthy(queue[i])
    /\ \A t \in Tasks : call[t].op = "put" => call[t].qlen <= max_length

\* A step that hands a batch to send leaves the queue empty.
C30_DrainEmpties ==
    Len(sends') > Len(sends) => queue' = <<>>

\* C30: with a fixed threshold T the queue holds at most T - 1 envelopes
\* wherever a task can be suspended and at most T right after an append,
\* under every interleaving of puts and flushes and whether sends succeed or
\* fail; it never holds a falsy item, and every drain empties it.
C30_QueueBound ==
    []C30_QueueBelowThreshold /\ [][C30_DrainEmpties]_vars

\* A put saw the queue at T = 2 and its send has failed; while it was
\* suspended another task's put buffered T - 1 envelopes.
C30_Witness ==
    /\ max_length = 2
    /\ Len(queue) = max_length - 1
    /\ \E u \in Tasks :
          /\ call[u].op = "put" /\ call[u].qlen = max_length
          /\ pc[u] = "done" /\ result[u] \in Errors

\* The batches handed to send so far share no envelope.
DisjointBatches ==
    \A i, j \in 1..Len(sends) :
        i # j => Range(sends[i].data) \cap Range(sends[j].data) = {}

\* A put of task u in progress has its item in the queue or in a batch, and
\* when it flushed itself, in its own batch.
PutAppended(u) ==
    (call[u].op = "put" /\ Truthy(call[u].item)) =>
        /\ \/ call[u].item \in Range(queue)
           \/ \E i \in 1..Len(sends) : call[u].item \in Range(sends[i].data)
        /\ call[u].sidx # 0 => call[u].item \in Range(sends[call[u].sidx].data)

\* Once the hung send is in flight it stays in flight.
C29_StaysStalled ==
    pc[Hung] = "sending" => pc'[Hung] = "sending"

\* C29: a send that never completes stalls the task that invoked it and no
\* other: the puts of the other tasks append and return, or flush a batch of
\* their own that shares nothing with the one in flight, and under fair
\* scheduling every put of another task ends.
C29_OnlyCallerStalls ==
    /\ [](DisjointBatches /\ \A u \in Tasks \ {Hung} : PutAppended(u))
    /\ [][C29_StaysStalled]_vars
    /\ \A u \in Tasks \ {Hung} : (call[u].op = "put") ~> (pc[u] = "idle")

\* While the send of task Hung is in flight, another task's put has flushed
\* a later batch of its own and returned from it.
C29_Witness ==
    /\ pc[Hung] = "sending"
    /\ \E u \in Tasks \ {Hung} :
          /\ Done(u, "put")
          /\ call[u].sidx > call[Hung].sidx
          /\ result[u] = "ok"

\* C32: once the channel's dispose has released the transport, no send is
\* in flight, whether it was started before the release or after it, and no
\* envelope is buffered.
C32_NotReleasedWhileNeeded ==
    http.closed =>
        /\ \A t \in Tasks : pc[t] # "sending"
        /\ queue = <<>>

\* The envelope is a request record with a negative duration; the batch of
\* the i-th send holds such an envelope.
Negative(item) == item \in DOMAIN durations /\ durations[item] < 0
BadBatch(i) == \E k \in 1..Len(sends[i].data) : Negative(sends[i].data[k])

\* The error of a negative duration is raised in send and nowhere else: a
\* call ends with ValueError exactly when it handed a batch with such an
\* envelope to send, it does so without being suspended in that send, and
\* the envelopes of that batch are in the queue and in another batch no more.
RaisedInSend ==
    /\ \A t \in Tasks :
          /\ result[t] = "ValueError" <=>
                (pc[t] = "done" /\ call[t].sidx # 0 /\ BadBatch(call[t].sidx))
          /\ pc[t] = "sending" => ~BadBatch(call[t].sidx)
    /\ \A i \in 1..Len(sends) :
          BadBatch(i) =>
              /\ Range(sends[i].data) \cap Range(queue) = {}
              /\ \A j \in 1..Len(sends) :
                    j # i => Range(sends[i].data) \cap Range(sends[j].data) = {}

\* C31 as stated: a track_request with a negative duration returns without
\* error and leaves its envelope in the queue; the error is raised in send,
\* drops the batch, and goes to the task that triggered the flush, never to
\* the caller that supplied the duration.
C31_NeverToSupplier ==
    /\ RaisedInSend
    /\ \A t \in Tasks :
          (Done(t, "put") /\ Negative(call[t].item)) =>
              /\ result[t] = "ok"
              /\ call[t].item \in Range(queue)

\* C31, amended: a track_request with a negative duration whose put stays
\* below the threshold returns without error and leaves its envelope in the
\* queue; the error is raised in send, drops the batch, and goes to the
\* task that triggered the flush, which is the supplier itself when its own
\* put reaches the threshold.
C31_ToWhoeverFlushes ==
    /\ RaisedInSend
    /\ \A t \in Tasks :
          (Done(t, "put") /\ Negative(call[t].item)) =>
              IF call[t].sidx = 0
              THEN /\ result[t] = "ok"
                   /\ call[t].item \in Range(queue)
              ELSE /\ result[t] = "ValueError"
                   /\ call[t].item \in Range(sends[call[t].sidx].data)
                   /\ call[t].item \notin Range(queue)

\* A task that supplied a valid duration gets the ValueError: its put filled
\* the batch that another caller's negative duration sits in, and both
\* envelopes are gone.
C31_Witness ==
    \E t \in Tasks :
        /\ Done(t, "put")
        /\ call[t].item \in DOMAIN durations
        /\ ~Negative(call[t].item)
        /\ result[t] = "ValueError"
        /\ call[t].sidx # 0
        /\ Len(sends[call[t].sidx].data) = 2
        /\ BadBatch(call[t].sidx)
        /\ queue = <<>>

====
